---- MODULE Spec2Model ----
(***************************************************************************)
(* The iris prediction service (app/main.py) and its trainer               *)
(* (create_model.py).                                                      *)
(*                                                                         *)
(* The predictor process loads app/model.pkl once when the module is       *)
(* imported, then serves GET / and POST /predict/.  A predict request is   *)
(* parsed from JSON, validated against IrisInput, turned into a batch of   *)
(* one feature vector, handed to model.predict, and answered with the      *)
(* first label of the returned array.  Handlers of different requests      *)
(* interleave step by step.  The trainer may run at any time and           *)
(* overwrites the artifact file.                                           *)
(***************************************************************************)
EXTENDS Integers, Sequences, FiniteSets

\* Number of requests the service receives in one run.
MaxReq == 2

Requests == 1..MaxReq

----------------------------------------------------------------------------
(* JSON values of a request body.  A number is m * 10^e.  A string is the  *)
(* sequence of its characters.                                             *)

Num(m, e) == [t |-> "num",  m |-> m, e |-> e, s |-> <<>>]
Str(s)    == [t |-> "str",  m |-> 0, e |-> 0, s |-> s]
Bool(b)   == [t |-> "bool", m |-> IF b THEN 1 ELSE 0, e |-> 0, s |-> <<>>]
Null      == [t |-> "null", m |-> 0, e |-> 0, s |-> <<>>]

\* A float: m * 10^e.
Float(m, e) == [m |-> m, e |-> e]

\* The fields of IrisInput, in declaration order.
FieldOrder == <<"sepal_length", "sepal_width", "petal_length", "petal_width">>

Fields == {FieldOrder[i] : i \in 1..Len(FieldOrder)}

\* The labels of the iris dataset the classifier is fitted on.
Labels == 0..2

\* RandomForestClassifier() is fitted without a random_state: every trainer
\* run may produce a different forest.  Two fits are told apart here.
Fits == {"fitA", "fitB"}

----------------------------------------------------------------------------
(* Request bodies.  A body is a JSON object: its members in the order they *)
(* are written.                                                            *)

Member(k, v) == [k |-> k, v |-> v]

\* The object with the four fields in declaration order.
Obj(sl, sw, pl, pw) ==
    << Member("sepal_length", sl), Member("sepal_width", sw),
       Member("petal_length", pl), Member("petal_width", pw) >>

RECURSIVE Reverse(_)
Reverse(s) == IF s = <<>> THEN <<>> ELSE Append(Reverse(Tail(s)), Head(s))

\* Every member of o but the one named k.
Without(o, k) == SelectSeq(o, LAMBDA mem : mem.k # k)

Setosa     == Obj(Num(5, 0), Num(3, 0), Num(1, 0), Num(0, 0))
Virginica  == Obj(Num(6, 0), Num(3, 0), Num(6, 0), Num(2, 0))
\* A sample near the class boundary, where fits disagree.
Boundary   == Obj(Num(6, 0), Num(3, 0), Num(5, 0), Num(1, 0))

\* Bodies pydantic accepts.
AcceptedBodies ==
    { Setosa, Virginica, Boundary, Reverse(Boundary),
      Obj(Num(5, 0), Str(<<"3">>), Num(1, 0), Num(0, 0)),
      Obj(Num(5, 0), Num(3, 0), Bool(TRUE), Num(0, 0)),
      Obj(Num(1, 39), Num(3, 0), Num(1, 0), Num(0, 0)) }

\* Bodies pydantic rejects.
RejectedBodies ==
    { <<>>,
      Without(Setosa, "petal_width"),
      Without(Reverse(Virginica), "sepal_length"),
      Obj(Num(5, 0), Str(<<"x">>), Num(1, 0), Num(0, 0)),
      Obj(Num(5, 0), Num(3, 0), Null, Num(0, 0)),
      Obj(Num(5, 0), Num(3, 0), Num(1, 0), Str(<<"3", "x">>)),
      Without(Obj(Num(1, 39), Str(<<>>), Num(1, 0), Num(0, 0)), "petal_length") }

Bodies == AcceptedBodies \cup RejectedBodies

----------------------------------------------------------------------------
(* State.                                                                  *)

VARIABLES
    file,        \* app/model.pkl: "missing", "corrupt" or the fit pickled in it
    pstate,      \* predictor process: "init", "serving" or "failed"
    model,       \* the module global model: "none" or the fit loaded
    loads,       \* number of joblib.load calls the process has made
    op,          \* per request: "none", "welcome" or "predict"
    pc,          \* per request: the handler's position
    body,        \* per request: the JSON object received
    input_data,  \* per request: the validated IrisInput
    features,    \* per request: the local features of predict
    prediction,  \* per request: the local prediction of predict
    calls,       \* per request: the arguments model.predict was called with
    resp,        \* per request: the response sent
    after        \* per request: a 422 had been sent before it arrived

vars == << file, pstate, model, loads, op, pc, body, input_data, features,
           prediction, calls, resp, after >>

reqvars == << op, pc, body, input_data, features, prediction, calls, resp, after >>

NoResp == [status |-> 0, json |-> [none |-> TRUE]]

----------------------------------------------------------------------------
(* Request parsing and validation: what FastAPI and pydantic do with the   *)
(* body before predict is entered.                                         *)

Keys(o) == {o[i].k : i \in 1..Len(o)}

\* The value of the last member of o named k.
RECURSIVE Lookup(_, _)
Lookup(o, k) ==
    IF o[Len(o)].k = k THEN o[Len(o)].v ELSE Lookup(SubSeq(o, 1, Len(o) - 1), k)

\* json.loads: the object as a dict; of members with one name the last wins.
ParseJson(o) == [k \in Keys(o) |-> Lookup(o, k)]

Digits == {"0", "1", "2", "3", "4", "5", "6", "7", "8", "9"}

DigitVal(c) ==
    CASE c = "0" -> 0 [] c = "1" -> 1 [] c = "2" -> 2 [] c = "3" -> 3
      [] c = "4" -> 4 [] c = "5" -> 5 [] c = "6" -> 6 [] c = "7" -> 7
      [] c = "8" -> 8 [] c = "9" -> 9

\* Whether a string of digits and letters reads as a decimal number.
IsNumeral(s) == Len(s) > 0 /\ \A i \in 1..Len(s) : s[i] \in Digits

RECURSIVE NumeralValue(_)
NumeralValue(s) ==
    IF Len(s) = 0 THEN 0
    ELSE NumeralValue(SubSeq(s, 1, Len(s) - 1)) * 10 + DigitVal(s[Len(s)])

\* Coercible, were null taken for 0.0.
CoercibleOrNull(v) ==
    \/ v.t \in {"num", "bool", "null"}
    \/ v.t = "str" /\ IsNumeral(v.s)

\* pydantic's float validator in lax mode: a number is taken as it is, a bool
\* as 1.0 or 0.0, a string is parsed; anything else is not a float.
Coercible(v) ==
    \/ v.t \in {"num", "bool"}
    \/ v.t = "str" /\ IsNumeral(v.s)

ToFloat(v) ==
    IF v.t = "str" THEN Float(NumeralValue(v.s), 0) ELSE Float(v.m, v.e)

\* The reason a field of the dict d fails, or "ok".
FieldError(d, f) ==
    IF f \notin DOMAIN d THEN "missing"
    ELSE IF Coercible(d[f]) THEN "ok"
    ELSE IF d[f].t = "str" THEN "float_parsing"
    ELSE "float_type"

\* The errors of validating d as an IrisInput: one per failing field.
ValidationErrors(d) ==
    { [loc |-> f, type |-> FieldError(d, f)] :
        f \in {g \in Fields : FieldError(d, g) # "ok"} }

\* The IrisInput built from a dict that has no errors.
IrisInput(d) == [f \in Fields |-> ToFloat(d[f])]

----------------------------------------------------------------------------
(* predict's own computation.                                              *)

\* FeatureVector, were the two petal measurements written in the other order.
FeatureVectorSwapped(inp) ==
    << << inp.sepal_length, inp.sepal_width, inp.petal_width, inp.petal_length >> >>

\* features = [[sepal_length, sepal_width, petal_length, petal_width]]
FeatureVector(inp) ==
    << << inp.sepal_length, inp.sepal_width, inp.petal_length, inp.petal_width >> >>

\* Whether a float survives the cast to float32 (max 3.4028235e38) as a
\* finite value.  m has at most two digits.
FitsFloat32(x) ==
    LET exp10 == IF x.m >= 10 THEN x.e + 1 ELSE x.e
    IN  \/ x.m = 0
        \/ exp10 < 38
        \/ exp10 = 38 /\ (IF x.m >= 10 THEN x.m <= 34 ELSE x.m <= 3)

\* x < n, for a float32 x and a small positive integer n.
Lt(x, n) == x.m = 0 \/ (x.e = 0 /\ x.m < n)

\* The label a fitted forest gives one row of four measurements.
Classify(fit, row) ==
    IF Lt(row[3], 3) THEN 0
    ELSE IF fit = "fitA"
         THEN (IF Lt(row[4], 2) THEN 1 ELSE 2)
         ELSE (IF Lt(row[3], 5) THEN 1 ELSE 2)

\* model.predict(X): X is cast to float32 and checked to be finite, which
\* raises ValueError; otherwise one label per row.
ModelPredict(fit, X) ==
    IF \E i \in 1..Len(X) : \E j \in 1..Len(X[i]) : ~FitsFloat32(X[i][j])
    THEN [raised |-> TRUE,  y |-> <<>>]
    ELSE [raised |-> FALSE, y |-> [i \in 1..Len(X) |-> Classify(fit, X[i])]]

----------------------------------------------------------------------------
(* Responses.                                                              *)

Greeting == [status |-> 200, json |-> [message |-> "Welcome to the ML Model API"]]

PredictionResponse(label) == [status |-> 200, json |-> [prediction |-> label]]

\* FastAPI's answer to a RequestValidationError.
Unprocessable(errs) == [status |-> 422, json |-> [detail |-> errs]]

\* The answer to an exception that escapes the handler.
ServerError == [status |-> 500, json |-> [detail |-> {}]]

----------------------------------------------------------------------------
(* The processes.                                                          *)

Init ==
    /\ file \in {"missing", "corrupt"} \cup Fits
    /\ pstate = "init"
    /\ model = "none"
    /\ loads = 0
    /\ op = [r \in Requests |-> "none"]
    /\ pc = [r \in Requests |-> "idle"]
    /\ body = [r \in Requests |-> <<>>]
    /\ input_data = [r \in Requests |-> <<>>]
    /\ features = [r \in Requests |-> <<>>]
    /\ prediction = [r \in Requests |-> <<>>]
    /\ calls = [r \in Requests |-> <<>>]
    /\ resp = [r \in Requests |-> NoResp]
    /\ after = [r \in Requests |-> FALSE]

\* Train, were the serving process to pick up the new artifact.
TrainAndReload ==
    /\ \E fit \in Fits :
          /\ file' = fit
          /\ model' = IF pstate = "serving" THEN fit ELSE model
    /\ UNCHANGED << pstate, loads, reqvars >>

\* create_model.py: fit a forest and dump it over app/model.pkl.
Train ==
    /\ \E fit \in Fits : file' = fit
    /\ UNCHANGED << pstate, model, loads, reqvars >>

\* Startup, were a failed load replaced by a model fitted on the spot.
StartupWithFallback ==
    /\ pstate = "init"
    /\ loads' = loads + 1
    /\ model' = IF file \in Fits THEN file ELSE "fitA"
    /\ pstate' = "serving"
    /\ UNCHANGED << file, reqvars >>

\* Import of app/main.py: joblib.load raises on a missing or unreadable
\* file and the process ends before the app exists.
Startup ==
    /\ pstate = "init"
    /\ loads' = loads + 1
    /\ IF file \in Fits
       THEN model' = file /\ pstate' = "serving"
       ELSE model' = model /\ pstate' = "failed"
    /\ UNCHANGED << file, reqvars >>

\* Requests arrive one after another; r is the next to arrive.
Arrives(r) ==
    /\ pstate = "serving"
    /\ pc[r] = "idle"
    /\ \A q \in Requests : q < r => pc[q] # "idle"
    /\ after' = [after EXCEPT ![r] = \E q \in Requests : resp[q].status = 422]

ReceiveWelcome(r) ==
    /\ Arrives(r)
    /\ op' = [op EXCEPT ![r] = "welcome"]
    /\ pc' = [pc EXCEPT ![r] = "root"]
    /\ UNCHANGED << file, pstate, model, loads, body, input_data, features,
                    prediction, calls, resp >>

ReceivePredict(r) ==
    /\ Arrives(r)
    /\ \E b \in Bodies : body' = [body EXCEPT ![r] = b]
    /\ op' = [op EXCEPT ![r] = "predict"]
    /\ pc' = [pc EXCEPT ![r] = "validate"]
    /\ UNCHANGED << file, pstate, model, loads, input_data, features,
                    prediction, calls, resp >>

\* ReadRoot, were the greeting to depend on what was served before.
ReadRootReturning(r) ==
    /\ pc[r] = "root"
    /\ resp' = [resp EXCEPT ![r] =
                   IF \E q \in Requests : pc[q] = "done"
                   THEN [status |-> 200, json |-> [message |-> "Welcome back"]]
                   ELSE Greeting]
    /\ pc' = [pc EXCEPT ![r] = "done"]
    /\ UNCHANGED << file, pstate, model, loads, op, body, input_data,
                    features, prediction, calls, after >>

\* read_root
ReadRoot(r) ==
    /\ pc[r] = "root"
    /\ resp' = [resp EXCEPT ![r] = Greeting]
    /\ pc' = [pc EXCEPT ![r] = "done"]
    /\ UNCHANGED << file, pstate, model, loads, op, body, input_data,
                    features, prediction, calls, after >>

\* Validate, were the four fields optional with default 0.0.
ValidateWithDefaults(r) ==
    /\ pc[r] = "validate"
    /\ LET d == ParseJson(body[r])
           errs == {e \in ValidationErrors(d) : e.type # "missing"}
       IN  IF errs # {}
           THEN /\ resp' = [resp EXCEPT ![r] = Unprocessable(errs)]
                /\ pc' = [pc EXCEPT ![r] = "done"]
                /\ UNCHANGED input_data
           ELSE /\ input_data' = [input_data EXCEPT ![r] =
                       [f \in Fields |->
                           IF f \in DOMAIN d THEN ToFloat(d[f]) ELSE Float(0, 0)]]
                /\ pc' = [pc EXCEPT ![r] = "features"]
                /\ UNCHANGED resp
    /\ UNCHANGED << file, pstate, model, loads, op, body, features,
                    prediction, calls, after >>

\* Validate, were a validation error to end the process.
ValidateFatal(r) ==
    /\ pc[r] = "validate"
    /\ LET d == ParseJson(body[r])
           errs == ValidationErrors(d)
       IN  IF errs # {}
           THEN /\ resp' = [resp EXCEPT ![r] = Unprocessable(errs)]
                /\ pc' = [pc EXCEPT ![r] = "done"]
                /\ pstate' = "failed"
                /\ UNCHANGED input_data
           ELSE /\ input_data' = [input_data EXCEPT ![r] = IrisInput(d)]
                /\ pc' = [pc EXCEPT ![r] = "features"]
                /\ UNCHANGED << resp, pstate >>
    /\ UNCHANGED << file, model, loads, op, body, features,
                    prediction, calls, after >>

\* The body is parsed and validated as the parameter input_data: IrisInput.
Validate(r) ==
    /\ pc[r] = "validate"
    /\ LET d == ParseJson(body[r])
           errs == ValidationErrors(d)
       IN  IF errs # {}
           THEN /\ resp' = [resp EXCEPT ![r] = Unprocessable(errs)]
                /\ pc' = [pc EXCEPT ![r] = "done"]
                /\ UNCHANGED input_data
           ELSE /\ input_data' = [input_data EXCEPT ![r] = IrisInput(d)]
                /\ pc' = [pc EXCEPT ![r] = "features"]
                /\ UNCHANGED resp
    /\ UNCHANGED << file, pstate, model, loads, op, body, features,
                    prediction, calls, after >>

\* BuildFeatures, were features one list shared by all handlers.
BuildFeaturesShared(r) ==
    /\ pc[r] = "features"
    /\ features' = [q \in Requests |-> FeatureVector(input_data[r])]
    /\ pc' = [pc EXCEPT ![r] = "predict"]
    /\ UNCHANGED << file, pstate, model, loads, op, body, input_data,
                    prediction, calls, resp, after >>

\* predict, lines 25-30
BuildFeatures(r) ==
    /\ pc[r] = "features"
    /\ features' = [features EXCEPT ![r] = FeatureVector(input_data[r])]
    /\ pc' = [pc EXCEPT ![r] = "predict"]
    /\ UNCHANGED << file, pstate, model, loads, op, body, input_data,
                    prediction, calls, resp, after >>

\* CallModel, were the artifact read from the file at every request.
CallModelReloading(r) ==
    /\ pc[r] = "predict"
    /\ LET out == ModelPredict(file, features[r])
       IN  /\ calls' = [calls EXCEPT ![r] = Append(@, features[r])]
           /\ IF out.raised
              THEN /\ resp' = [resp EXCEPT ![r] = ServerError]
                   /\ pc' = [pc EXCEPT ![r] = "done"]
                   /\ UNCHANGED prediction
              ELSE /\ prediction' = [prediction EXCEPT ![r] = out.y]
                   /\ pc' = [pc EXCEPT ![r] = "respond"]
                   /\ UNCHANGED resp
    /\ UNCHANGED << file, pstate, model, loads, op, body, input_data,
                    features, after >>

\* predict, line 31
CallModel(r) ==
    /\ pc[r] = "predict"
    /\ LET out == ModelPredict(model, features[r])
       IN  /\ calls' = [calls EXCEPT ![r] = Append(@, features[r])]
           /\ IF out.raised
              THEN /\ resp' = [resp EXCEPT ![r] = ServerError]
                   /\ pc' = [pc EXCEPT ![r] = "done"]
                   /\ UNCHANGED prediction
              ELSE /\ prediction' = [prediction EXCEPT ![r] = out.y]
                   /\ pc' = [pc EXCEPT ![r] = "respond"]
                   /\ UNCHANGED resp
    /\ UNCHANGED << file, pstate, model, loads, op, body, input_data,
                    features, after >>

\* predict, line 32
Respond(r) ==
    /\ pc[r] = "respond"
    /\ resp' = [resp EXCEPT ![r] = PredictionResponse(prediction[r][1])]
    /\ pc' = [pc EXCEPT ![r] = "done"]
    /\ UNCHANGED << file, pstate, model, loads, op, body, input_data,
                    features, prediction, calls, after >>

Next ==
    \/ Train
    \/ Startup
    \/ \E r \in Requests : ReceiveWelcome(r)
    \/ \E r \in Requests : ReceivePredict(r)
    \/ \E r \in Requests : ReadRoot(r)
    \/ \E r \in Requests : Validate(r)
    \/ \E r \in Requests : BuildFeatures(r)
    \/ \E r \in Requests : CallModel(r)
    \/ \E r \in Requests : Respond(r)

Spec == Init /\ [][Next]_vars

----------------------------------------------------------------------------
(* Properties.                                                             *)

Done(r) == pc[r] = "done"

Predicts(r) == op[r] = "predict"

\* The fields a dict lacks.
Missing(d) == Fields \ DOMAIN d

\* A value that is no number: null, or a string that does not read as one.
NonNumeric(v) == v.t = "null" \/ (v.t = "str" /\ ~IsNumeral(v.s))

\* The fields of a dict whose value is no number.
NonNumerics(d) == {f \in DOMAIN d \cap Fields : NonNumeric(d[f])}

\* All four fields are there and each is a JSON number.
AllNumeric(d) == \A f \in Fields : f \in DOMAIN d /\ d[f].t = "num"

\* All four fields are there and each is a number or reads as one.
Valid(d) == \A f \in Fields : f \in DOMAIN d /\ ~NonNumeric(d[f])

\* The four values of a dict as floats, in the order the model was fitted on.
OwnVector(d) ==
    << ToFloat(d["sepal_length"]), ToFloat(d["sepal_width"]),
       ToFloat(d["petal_length"]), ToFloat(d["petal_width"]) >>

\* A model result for a batch of one, as a response.
AsResponse(out) ==
    IF out.raised
    THEN [status |-> 500, json |-> [detail |-> {}]]
    ELSE [status |-> 200, json |-> [prediction |-> out.y[1]]]

\* C1: every finished predict request whose four fields are present and
\* numeric was answered 200 with a prediction in {0, 1, 2}.
C1_NumericPayloadGetsLabel ==
    \A r \in Requests :
        (Predicts(r) /\ Done(r) /\ AllNumeric(ParseJson(body[r]))) =>
            /\ resp[r].status = 200
            /\ resp[r].json.prediction \in Labels

\* C2: a predict request with a missing field never has the model called
\* for it, never gets past validation, and is answered 422 with an error
\* naming each missing field.
C2_MissingFieldRejected ==
    \A r \in Requests :
        Predicts(r) =>
            LET missing == Missing(ParseJson(body[r]))
            IN  missing # {} =>
                    /\ calls[r] = <<>>
                    /\ pc[r] \in {"validate", "done"}
                    /\ Done(r) =>
                          /\ resp[r].status = 422
                          /\ \A f \in missing :
                                [loc |-> f, type |-> "missing"]
                                    \in resp[r].json.detail

C2_Witness ==
    \E r, q \in Requests :
        /\ Predicts(r) /\ Done(r)
        /\ Missing(ParseJson(body[r])) \notin {{}, Fields}
        /\ resp[r].status = 422
        /\ Predicts(q) /\ calls[q] # <<>>

C4_OwnPayloadOnly ==
    \A r \in Requests :
        (Predicts(r) /\ pc[r] \in {"predict", "respond", "done"}) =>
            LET d == ParseJson(body[r])
            IN  Valid(d) =>
                    LET own == << OwnVector(d) >>
                    IN  /\ features[r] = own
                        /\ pc[r] = "respond" =>
                              prediction[r] = ModelPredict(model, own).y
                        /\ Done(r) =>
                              resp[r] = AsResponse(ModelPredict(model, own))

\* Two handlers with different payloads are both between the model call and
\* the response, holding different labels.
C4_Witness ==
    \E r, q \in Requests :
        /\ r # q
        /\ Predicts(r) /\ Predicts(q)
        /\ pc[r] = "respond" /\ pc[q] = "respond"
        /\ OwnVector(ParseJson(body[r])) # OwnVector(ParseJson(body[q]))
        /\ prediction[r] # prediction[q]

\* C5: once the process serves, no step changes the in-memory model or loads
\* again, and the process has loaded exactly once.
C5_ModelLoadedOnceNeverReplaced ==
    [][ /\ loads' <= 1
        /\ pstate = "serving" =>
              /\ loads = 1
              /\ model \in Fits
              /\ model' = model
              /\ loads' = loads ]_vars

\* The trainer has overwritten the artifact with another fit while the
\* process serves, and requests were answered and rejected.
C5_Witness ==
    /\ pstate = "serving"
    /\ file \in Fits /\ file # model
    /\ \E r, q \in Requests :
          /\ Predicts(r) /\ resp[r].status = 200
          /\ resp[q].status = 422

\* C6: a start with the artifact missing or corrupt ends in the failed
\* state with nothing loaded; a failed process stays failed, loads nothing
\* more, takes no request and sends no response.
C6_BadArtifactIsFatal ==
    [][ /\ (pstate = "init" /\ file \notin Fits /\ pstate' # "init") =>
              (pstate' = "failed" /\ model' = "none" /\ loads' = 1)
        /\ pstate = "failed" =>
              /\ pstate' = "failed"
              /\ model' = "none"
              /\ loads' = loads
              /\ \A r \in Requests : pc'[r] = "idle" /\ resp'[r] = NoResp ]_vars

\* The process failed to start and the trainer has since written a good
\* artifact.
C6_Witness ==
    /\ pstate = "failed"
    /\ file \in Fits
    /\ loads = 1

\* C7: every answered welcome request got the fixed greeting, and the model
\* was not called for it.
C7_WelcomeIsFixed ==
    \A r \in Requests :
        (op[r] = "welcome" /\ Done(r)) =>
            /\ resp[r] = [status |-> 200,
                          json |-> [message |-> "Welcome to the ML Model API"]]
            /\ calls[r] = <<>>

\* A welcome request answered after a rejected and beside another request.
C7_Witness ==
    \E r, q \in Requests :
        /\ op[r] = "welcome" /\ Done(r) /\ after[r]
        /\ Predicts(q) /\ Done(q)

\* C8: once a predict request has been rejected the process still serves
\* with the model it loaded, and every request that arrived after a
\* rejection and is answered got the answer its own payload has.
C8_RejectionLeavesServiceIntact ==
    /\ (\E q \in Requests : resp[q].status = 422) =>
          (pstate = "serving" /\ model \in Fits)
    /\ \A r \in Requests :
          (after[r] /\ Done(r)) =>
              IF op[r] = "welcome"
              THEN resp[r] = [status |-> 200,
                              json |-> [message |-> "Welcome to the ML Model API"]]
              ELSE LET d == ParseJson(body[r])
                   IN  Valid(d) =>
                          resp[r] = AsResponse(ModelPredict(model, << OwnVector(d) >>))

\* A valid predict request that arrived after a rejection got its label.
C8_Witness ==
    \E r \in Requests :
        /\ after[r] /\ Done(r) /\ Predicts(r)
        /\ Valid(ParseJson(body[r]))
        /\ resp[r].status = 200

C10_OneVectorFixedOrder ==
    \A r \in Requests :
        Predicts(r) =>
            IF pc[r] \in {"validate", "features", "predict"}
            THEN calls[r] = <<>>
            ELSE LET d == ParseJson(body[r])
                 IN  Valid(d) =>
                        /\ Len(calls[r]) = 1
                        /\ Len(calls[r][1]) = 1
                        /\ calls[r][1][1] = OwnVector(d)
                        /\ LET out == ModelPredict(model, calls[r][1])
                           IN  (Done(r) /\ ~out.raised) =>
                                  /\ resp[r].status = 200
                                  /\ resp[r].json.prediction = out.y[1]

\* A valid body written in reverse order was answered with a label other
\* than 0.
C10_Witness ==
    \E r \in Requests :
        /\ Predicts(r) /\ Done(r)
        /\ Valid(ParseJson(body[r]))
        /\ body[r][1].k = "petal_width"
        /\ resp[r].status = 200
        /\ resp[r].json.prediction # 0

====
